---- MODULE Spec2Model ----
(***************************************************************************)
(* Model of src/app.py: a Flask application that receives Telegram updates *)
(* on POST /webhook, relays the attached file to Google Drive in           *)
(* handle_file, and registers the webhook on GET /setup.                   *)
(*                                                                         *)
(* Every await of handle_file is one action; the outcome of the remote     *)
(* call (return or raise) is chosen by the environment.  Texts are         *)
(* sequences of tokens, so that string formatting is concatenation and     *)
(* what the chat renders is obtained by scanning the tokens.               *)
(***************************************************************************)
EXTENDS Naturals, Sequences, FiniteSets, TLC

\* ------------------------------------------------------------------ bounds
\* Number of HTTP requests the server receives (they may overlap).
MaxRequests == 2
\* Largest number of size variants of a photo message.
MaxPhotos == 2
\* Number of remote calls the environment lets fail in one run.
MaxFaults == 2

\* ------------------------------------------------------- Python values
\* Optional values: None is the empty tuple, a present value v is <<v>>.
None == <<>>
Some(v) == <<v>>

\* Python truthiness of an optional string (None and "" are falsy).
Truthy(s) == s # None /\ s[1] # <<>>

\* str(x) inside an f-string: None prints as the word None.
Str(s) == IF s = None THEN <<"None">> ELSE s[1]

\* a or b
Or(a, b) == IF Truthy(a) THEN a ELSE b

\* ------------------------------------------------------------- texts
UnsupportedText == <<"format-not-supported">>
FetchingText == <<"receiving-file-from-telegram...">>
UploadingText == <<"uploading-to-google-drive...">>
UploadFailedText == <<"[x] ", "problem-uploading-file">>

AOpen == "<a href='"
AMid == "'>"
AClose == "</a>"

SuccessText(file_link, file_name) ==
    <<"[ok] ", "file-uploaded", "\n\n", AOpen>> \o Str(file_link) \o <<AMid>>
        \o Str(file_name) \o <<AClose>>

\* line 142 without the prefix: the bare string of the exception.
ErrorTextBare(e) == e

\* line 142
ErrorText(e) == <<"error: ">> \o e

\* --------------------------------------------------------- exceptions
\* An exception is represented by its string form.
TooBig == <<"File is too big">>
TimedOut == <<"Timed out">>
\* An exception whose message happens to read like the upload-failed text.
Lookalike == UploadFailedText
Errors == {TooBig, TimedOut, Lookalike}

\* ----------------------------------------------------- inbound messages
\* Declared names a platform attachment may carry: none, the empty string,
\* a plain name, and a name that contains markup.
PlainName == <<"report.pdf">>
MarkupName == <<"x", AClose, AOpen, "http://other", AMid, "y">>
DocumentNames == {None, Some(<<>>), Some(PlainName), Some(MarkupName)}
MediaNames == {None, Some(<<>>), Some(PlainName)}

Attachment(kind, name) ==
    [file_id |-> <<kind, "file">>, file_unique_id |-> kind, file_name |-> name]

\* The i-th size variant of a photo (the platform orders them by size).
PhotoSize(i) == [file_id |-> <<"photo", ToString(i)>>, file_unique_id |-> ToString(i)]
PhotoList(n) == [i \in 1..n |-> PhotoSize(i)]

Messages ==
    [document : {None} \cup {Some(Attachment("document", n)) : n \in DocumentNames},
     video    : {None} \cup {Some(Attachment("video", n)) : n \in MediaNames},
     photo    : {PhotoList(n) : n \in 0..MaxPhotos},
     audio    : {None} \cup {Some(Attachment("audio", n)) : n \in MediaNames}]

NoAttachment == [document |-> None, video |-> None, photo |-> <<>>, audio |-> None]

\* The messages used when several requests overlap.
CoreMessages ==
    {NoAttachment,
     [NoAttachment EXCEPT !.document = Some(Attachment("document", Some(PlainName)))]}

\* --------------------------------------------------- the dispatch router
\* line 84: a document's declared name is taken as it is.
DocumentName(document) == document.file_name

\* line 87 with the declared name ignored.
VideoNameAlwaysSynthesized(video) ==
    Some(<<"video_", video.file_unique_id, ".mp4">>)

\* line 87
VideoName(video) ==
    Or(video.file_name, Some(<<"video_", video.file_unique_id, ".mp4">>))

\* line 90 with index 0 in place of -1.
FirstPhoto(photo) == photo[1]

\* line 90: message.photo[-1]
LastPhoto(photo) == photo[Len(photo)]

\* line 91
PhotoName(size) == Some(<<"photo_", size.file_unique_id, ".jpg">>)

\* line 94
AudioName(audio) ==
    Or(audio.file_name, Some(<<"audio_", audio.file_unique_id, ".mp3">>))

\* lines 81-94 with the video test placed before the document test.
DetectFileVideoFirst(message) ==
    IF message.video # None
    THEN [branch |-> "video",
          file_to_process |-> message.video,
          file_name |-> VideoName(message.video[1])]
    ELSE IF message.document # None
    THEN [branch |-> "document",
          file_to_process |-> message.document,
          file_name |-> DocumentName(message.document[1])]
    ELSE IF message.photo # <<>>
    THEN [branch |-> "photo",
          file_to_process |-> Some(LastPhoto(message.photo)),
          file_name |-> PhotoName(LastPhoto(message.photo))]
    ELSE IF message.audio # None
    THEN [branch |-> "audio",
          file_to_process |-> message.audio,
          file_name |-> AudioName(message.audio[1])]
    ELSE [branch |-> "none", file_to_process |-> None, file_name |-> Some(<<>>)]

\* handle_file, lines 77-94: the attachment to relay and its suggested name.
\* branch records which arm of the if/elif chain ran.
DetectFile(message) ==
    IF message.document # None
    THEN [branch |-> "document",
          file_to_process |-> message.document,
          file_name |-> DocumentName(message.document[1])]
    ELSE IF message.video # None
    THEN [branch |-> "video",
          file_to_process |-> message.video,
          file_name |-> VideoName(message.video[1])]
    ELSE IF message.photo # <<>>
    THEN [branch |-> "photo",
          file_to_process |-> Some(LastPhoto(message.photo)),
          file_name |-> PhotoName(LastPhoto(message.photo))]
    ELSE IF message.audio # None
    THEN [branch |-> "audio",
          file_to_process |-> message.audio,
          file_name |-> AudioName(message.audio[1])]
    ELSE [branch |-> "none", file_to_process |-> None, file_name |-> Some(<<>>)]

\* ------------------------------------------------------ the upload executor
\* What the storage provider does with a create request: it raises, or it
\* answers with a file resource, whose webViewLink may be missing.
DriveLink == <<"https://drive.google.com/file/d/1/view">>
ProviderOutcomes ==
    {[raises |-> TRUE, webViewLink |-> None],
     [raises |-> FALSE, webViewLink |-> None],
     [raises |-> FALSE, webViewLink |-> Some(DriveLink)]}

\* upload_to_drive, lines 43-64: the view link, or None on any exception.
upload_to_drive(provider) ==
    IF provider.raises THEN None ELSE provider.webViewLink

\* ------------------------------------------------------------------ state
Requests == 1..MaxRequests

VARIABLES
    pc,                 \* where each request is in its view function
    route,              \* "webhook" or "setup"
    update,             \* the parsed payload (None when it does not parse)
    branch,             \* the arm of the if/elif chain handle_file took ("not run"
                        \* until handle_file is called)
    file_to_process,    \* handle_file's locals
    file_name,
    status_message,     \* id of the status message, None before line 103
    file_link,
    exc,                \* the exception bound to e at line 139
    escaped,            \* the exception that left handle_file, if any
    calls,              \* the remote calls each request has made, in order
    chat,               \* the messages in the chat; the index is the message id
    response,           \* the HTTP response of each request
    WEBHOOK_URL,        \* the environment variable read at line 24
    webhook_target,     \* the URL registered with the platform, if any
    initialize_calls,   \* calls of Application.initialize
    set_webhook_calls,  \* calls of Bot.set_webhook
    faults              \* remote calls that have raised so far

locals == <<branch, file_to_process, file_name, status_message, file_link, exc, escaped>>
setup_vars == <<WEBHOOK_URL, webhook_target, initialize_calls, set_webhook_calls>>
vars == <<pc, route, update, locals, calls, chat, response, setup_vars, faults>>

\* A remote call as the request's log records it.
\* target is the id of the message edited (0 when the call edits none), text
\* the text sent (for get_file, the file id asked for), ok whether the call
\* returned (FALSE: it raised).
Call(op, target, text, parse_mode, disable_web_page_preview, ok) ==
    [op |-> op, target |-> target, text |-> text, parse_mode |-> parse_mode,
     disable_web_page_preview |-> disable_web_page_preview, ok |-> ok]

PlainCall(op, target, text, ok) == Call(op, target, text, "None", FALSE, ok)

\* A message of the chat: who sent it and what it shows now.
ChatMessage(r, text) ==
    [by |-> r, text |-> text, parse_mode |-> "None", disable_web_page_preview |-> FALSE]

\* The exceptions each remote call may raise.
Raises(op) ==
    CASE op = "get_file" -> {TooBig, TimedOut}
      [] op = "download_to_memory" -> {TooBig}
      [] op = "get_drive_service" -> {Lookalike}
      [] OTHER -> {TimedOut}

PublicUrl == <<"https://bot.example">>

Init ==
    /\ pc = [r \in Requests |-> "idle"]
    /\ route = [r \in Requests |-> "none"]
    /\ update = [r \in Requests |-> None]
    /\ branch = [r \in Requests |-> "not run"]
    /\ file_to_process = [r \in Requests |-> None]
    /\ file_name = [r \in Requests |-> Some(<<>>)]
    /\ status_message = [r \in Requests |-> None]
    /\ file_link = [r \in Requests |-> None]
    /\ exc = [r \in Requests |-> None]
    /\ escaped = [r \in Requests |-> None]
    /\ calls = [r \in Requests |-> <<>>]
    /\ chat = <<>>
    /\ response = [r \in Requests |-> "none"]
    /\ WEBHOOK_URL \in {None, Some(PublicUrl)}
    /\ webhook_target = None
    /\ initialize_calls = 0
    /\ set_webhook_calls = 0
    /\ faults = 0

\* ------------------------------------------------------------ HTTP layer
\* A request reaches the server.  Requests are numbered in arrival order.
Receive(r, rt, payload) ==
    /\ pc[r] = "idle"
    /\ \A q \in Requests : q < r => pc[q] # "idle"
    /\ route' = [route EXCEPT ![r] = rt]
    /\ update' = [update EXCEPT ![r] = payload]
    /\ pc' = [pc EXCEPT ![r] = rt]
    /\ UNCHANGED <<locals, calls, chat, response, setup_vars, faults>>

\* Several requests may overlap; their payloads are unparseable bodies or
\* updates carrying one of CoreMessages.
Arrive(r) ==
    \E rt \in {"webhook", "setup"} :
        \E payload \in {None} \cup {Some(m) : m \in CoreMessages} :
            /\ rt = "setup" => payload = None
            /\ Receive(r, rt, payload)

\* One request alone; a webhook request may carry any message.
ArriveAlone ==
    \E rt \in {"webhook", "setup"} :
        \E payload \in {None} \cup {Some(m) : m \in Messages} :
            /\ rt = "setup" => payload = None
            /\ Receive(1, rt, payload)

\* The environment lets a remote call raise while its budget lasts.
Fault == /\ faults < MaxFaults
         /\ faults' = faults + 1

\* The view ends with an HTTP response.
Respond(r, status) ==
    /\ response' = [response EXCEPT ![r] = status]
    /\ pc' = [pc EXCEPT ![r] = "done"]

\* webhook, lines 175-181: Update.de_json raises on the payload.
WebhookBadPayload(r) ==
    /\ pc[r] = "webhook"
    /\ update[r] = None
    /\ Respond(r, "error 500")
    /\ UNCHANGED <<route, update, locals, calls, chat, setup_vars, faults>>

\* webhook, lines 177-181: process_update itself raises.
WebhookProcessFails(r) ==
    /\ pc[r] = "webhook"
    /\ update[r] # None
    /\ Fault
    /\ Respond(r, "error 500")
    /\ UNCHANGED <<route, update, locals, calls, chat, setup_vars>>

\* A variant of HandleFile that remembers what was relayed: when another
\* invocation already obtained a link for the same update, the handler
\* returns at once and relays nothing.
HandleFileDedup(r) ==
    /\ pc[r] = "webhook"
    /\ update[r] # None
    /\ LET d == DetectFile(update[r][1])
           seen == \E q \in Requests \ {r} :
                        update[q] = update[r] /\ Truthy(file_link[q])
       IN
        /\ branch' = [branch EXCEPT ![r] = d.branch]
        /\ file_to_process' = [file_to_process EXCEPT ![r] = d.file_to_process]
        /\ file_name' = [file_name EXCEPT ![r] = d.file_name]
        /\ IF seen
           THEN /\ escaped' = [escaped EXCEPT ![r] = None]
                /\ Respond(r, "ok 200")
           ELSE /\ pc' = [pc EXCEPT ![r] =
                    IF d.file_to_process = None THEN "line 98" ELSE "line 103"]
                /\ UNCHANGED <<escaped, response>>
    /\ UNCHANGED <<route, update, status_message, file_link, exc,
                   calls, chat, setup_vars, faults>>

\* webhook, lines 176-177, and handle_file, lines 77-96: the update is
\* dispatched to handle_file, which runs up to its first await.  The filter
\* of the MessageHandler (lines 157-162) is not applied here: handle_file is
\* called with any message, one that carries no attachment included.
HandleFile(r) ==
    /\ pc[r] = "webhook"
    /\ update[r] # None
    /\ LET d == DetectFile(update[r][1]) IN
        /\ branch' = [branch EXCEPT ![r] = d.branch]
        /\ file_to_process' = [file_to_process EXCEPT ![r] = d.file_to_process]
        /\ file_name' = [file_name EXCEPT ![r] = d.file_name]
        /\ pc' = [pc EXCEPT ![r] =
                    IF d.file_to_process = None THEN "line 98" ELSE "line 103"]
    /\ UNCHANGED <<route, update, status_message, file_link, exc, escaped,
                   calls, chat, response, setup_vars, faults>>

\* ------------------------------------------------------------ handle_file
Log(r, call) == calls' = [calls EXCEPT ![r] = Append(@, call)]

\* handle_file ends: it returns (e = None) or the exception e leaves it.
\* process_update logs an exception of the handler and does not raise it
\* again, so webhook answers ok either way (lines 177-178).
EndHandler(r, e) ==
    /\ escaped' = [escaped EXCEPT ![r] = e]
    /\ Respond(r, "ok 200")

\* The handler goes on at `next`, or ends when there is nothing left to do.
Goto(r, next) ==
    IF next = "done"
    THEN EndHandler(r, None)
    ELSE /\ pc' = [pc EXCEPT ![r] = next]
         /\ UNCHANGED <<escaped, response>>

\* The try block without its except clause: the exception leaves
\* handle_file unreported.
ExceptUnhandled(r, e) ==
    /\ exc' = exc
    /\ EndHandler(r, Some(e))

\* An except clause that starts the fetch again instead of reporting.
ExceptRetries(r, e) ==
    /\ exc' = [exc EXCEPT ![r] = Some(e)]
    /\ pc' = [pc EXCEPT ![r] = "line 108"]
    /\ UNCHANGED <<escaped, response>>

\* An exception e raised inside the try block: the except clause runs next.
Except(r, e) ==
    /\ exc' = [exc EXCEPT ![r] = Some(e)]
    /\ pc' = [pc EXCEPT ![r] = "line 142"]
    /\ UNCHANGED <<escaped, response>>

\* A variant of Reply that keeps status_message in one module-level name
\* instead of a local: the message sent last is the status message of every
\* invocation.
ReplySharedStatus(r, text, sets, next) ==
    \/ /\ Log(r, PlainCall("reply_text", 0, text, TRUE))
       /\ chat' = Append(chat, ChatMessage(r, text))
       /\ status_message' =
            IF sets THEN [q \in Requests |-> Some(Len(chat) + 1)]
            ELSE status_message
       /\ Goto(r, next)
       /\ faults' = faults
    \/ \E e \in Raises("reply_text") :
       /\ Fault
       /\ Log(r, PlainCall("reply_text", 0, text, FALSE))
       /\ UNCHANGED <<chat, status_message>>
       /\ EndHandler(r, Some(e))

\* message.reply_text(text), outside the try block; sets is TRUE at line 103,
\* where the message sent becomes status_message.
Reply(r, text, sets, next) ==
    \/ /\ Log(r, PlainCall("reply_text", 0, text, TRUE))
       /\ chat' = Append(chat, ChatMessage(r, text))
       /\ status_message' =
            IF sets THEN [status_message EXCEPT ![r] = Some(Len(chat) + 1)]
            ELSE status_message
       /\ Goto(r, next)
       /\ faults' = faults
    \/ \E e \in Raises("reply_text") :
       /\ Fault
       /\ Log(r, PlainCall("reply_text", 0, text, FALSE))
       /\ UNCHANGED <<chat, status_message>>
       /\ EndHandler(r, Some(e))

\* The notice without the return of line 99: the handler falls through to
\* line 103.
ReplyUnsupportedFallsThrough(r) ==
    /\ pc[r] = "line 98"
    /\ Reply(r, UnsupportedText, FALSE, "line 103")
    /\ UNCHANGED <<route, update, branch, file_to_process, file_name,
                   file_link, exc, setup_vars>>

\* lines 98-99: the unsupported-format notice.
ReplyUnsupported(r) ==
    /\ pc[r] = "line 98"
    /\ Reply(r, UnsupportedText, FALSE, "done")
    /\ UNCHANGED <<route, update, branch, file_to_process, file_name,
                   file_link, exc, setup_vars>>

\* line 103: the status message.
SendStatus(r) ==
    /\ pc[r] = "line 103"
    /\ Reply(r, FetchingText, TRUE, "line 108")
    /\ UNCHANGED <<route, update, branch, file_to_process, file_name,
                   file_link, exc, setup_vars>>

\* A remote call inside the try block that changes no local: it returns and
\* the handler goes on at `next`, or it raises and the except clause runs.
TryCall(r, op, arg, next) ==
    /\ \/ /\ Log(r, PlainCall(op, 0, arg, TRUE))
          /\ Goto(r, next)
          /\ UNCHANGED <<exc, faults>>
       \/ \E e \in Raises(op) :
          /\ Fault
          /\ Log(r, PlainCall(op, 0, arg, FALSE))
          /\ Except(r, e)
    /\ UNCHANGED <<route, update, branch, file_to_process, file_name,
                   status_message, file_link, chat, setup_vars>>

\* lines 107-108
GetFile(r) ==
    /\ pc[r] = "line 108"
    /\ TryCall(r, "get_file", file_to_process[r][1].file_id, "line 112")

\* lines 111-113
Download(r) ==
    /\ pc[r] = "line 112"
    /\ TryCall(r, "download_to_memory", <<>>, "line 116")

\* line 121
GetDriveService(r) ==
    /\ pc[r] = "line 121"
    /\ TryCall(r, "get_drive_service", <<>>, "line 123")

\* What an edit that returned does to the chat.
Edited(id, text, parse_mode, disable_web_page_preview) ==
    [chat EXCEPT ![id] =
        [@ EXCEPT !.text = text, !.parse_mode = parse_mode,
                  !.disable_web_page_preview = disable_web_page_preview]]

\* status_message.edit_text inside the try block.
TryEdit(r, text, parse_mode, disable_web_page_preview, next) ==
    LET id == status_message[r][1] IN
    /\ \/ /\ Log(r, Call("edit_text", id, text, parse_mode, disable_web_page_preview, TRUE))
          /\ chat' = Edited(id, text, parse_mode, disable_web_page_preview)
          /\ Goto(r, next)
          /\ UNCHANGED <<exc, faults>>
       \/ \E e \in Raises("edit_text") :
          /\ Fault
          /\ Log(r, Call("edit_text", id, text, parse_mode, disable_web_page_preview, FALSE))
          /\ chat' = chat
          /\ Except(r, e)
    /\ UNCHANGED <<route, update, branch, file_to_process, file_name,
                   status_message, file_link, setup_vars>>

\* A variant of EditUploading after which the upload is started at once,
\* without the credential call of line 121.
EditUploadingSkipsCredential(r) ==
    /\ pc[r] = "line 116"
    /\ TryEdit(r, UploadingText, "None", FALSE, "line 123")

\* line 116
EditUploading(r) ==
    /\ pc[r] = "line 116"
    /\ TryEdit(r, UploadingText, "None", FALSE, "line 121")

\* A variant of UploadToDrive for an upload_to_drive without its except
\* clause: an exception of the provider reaches handle_file.
UploadToDrivePropagates(r) ==
    /\ pc[r] = "line 123"
    /\ \E provider \in ProviderOutcomes :
        /\ Log(r, PlainCall("upload_to_drive", 0, <<>>, ~provider.raises))
        /\ IF provider.raises
           THEN /\ Fault
                /\ file_link' = file_link
                /\ Except(r, TimedOut)
           ELSE /\ faults' = faults
                /\ file_link' = [file_link EXCEPT ![r] = provider.webViewLink]
                /\ exc' = exc
                /\ Goto(r, "line 128")
    /\ UNCHANGED <<route, update, branch, file_to_process, file_name,
                   status_message, chat, setup_vars>>

\* lines 123-125: upload_to_drive runs in the executor and never raises.
UploadToDrive(r) ==
    /\ pc[r] = "line 123"
    /\ \E provider \in ProviderOutcomes :
        /\ provider.raises => Fault
        /\ ~provider.raises => faults' = faults
        /\ Log(r, PlainCall("upload_to_drive", 0, <<>>, ~provider.raises))
        /\ file_link' = [file_link EXCEPT ![r] = upload_to_drive(provider)]
    /\ Goto(r, "line 128")
    /\ UNCHANGED <<route, update, branch, file_to_process, file_name,
                   status_message, exc, chat, setup_vars>>

\* A variant of EditSuccess without the `if file_link` test of line 128.
EditSuccessUnguarded(r) ==
    /\ pc[r] = "line 128"
    /\ TryEdit(r, SuccessText(file_link[r], file_name[r]), "HTML", TRUE, "done")

\* lines 128-134
EditSuccess(r) ==
    /\ pc[r] = "line 128"
    /\ Truthy(file_link[r])
    /\ TryEdit(r, SuccessText(file_link[r], file_name[r]), "HTML", TRUE, "done")

\* lines 135-137
EditUploadFailed(r) ==
    /\ pc[r] = "line 128"
    /\ ~Truthy(file_link[r])
    /\ TryEdit(r, UploadFailedText, "None", FALSE, "done")

\* lines 139-142: the except clause reports e on the status message.
ReportError(r) ==
    LET id == status_message[r][1]
        text == ErrorText(exc[r][1]) IN
    /\ pc[r] = "line 142"
    /\ \/ /\ Log(r, PlainCall("edit_text", id, text, TRUE))
          /\ chat' = Edited(id, text, "None", FALSE)
          /\ EndHandler(r, None)
          /\ faults' = faults
       \/ \E e \in Raises("edit_text") :
          /\ Fault
          /\ Log(r, PlainCall("edit_text", id, text, FALSE))
          /\ chat' = chat
          /\ EndHandler(r, Some(e))
    /\ UNCHANGED <<route, update, branch, file_to_process, file_name,
                   status_message, file_link, exc, setup_vars>>

\* A variant of SetupWithoutUrl that lacks the `if not WEBHOOK_URL` check
\* and registers whatever URL the f-string of line 194 yields.
SetupWithoutUrlRegisters(r) ==
    /\ pc[r] = "setup"
    /\ ~Truthy(WEBHOOK_URL)
    /\ set_webhook_calls' = set_webhook_calls + 1
    /\ webhook_target' = Some(Str(WEBHOOK_URL) \o <<"/webhook">>)
    /\ Log(r, PlainCall("set_webhook", 0,
                        Str(WEBHOOK_URL) \o <<"/webhook">>, TRUE))
    /\ Respond(r, "Webhook setup finished!")
    /\ UNCHANGED <<route, update, locals, chat, WEBHOOK_URL,
                   initialize_calls, faults>>

\* ------------------------------------------------------------------ setup
\* setup and setup_webhook, lines 189-191 and 208-210: no WEBHOOK_URL.
SetupWithoutUrl(r) ==
    /\ pc[r] = "setup"
    /\ ~Truthy(WEBHOOK_URL)
    /\ Respond(r, "Webhook setup finished!")
    /\ UNCHANGED <<route, update, locals, calls, chat, setup_vars, faults>>

\* line 194
full_webhook_url == Some(Str(WEBHOOK_URL) \o <<"/webhook">>)

\* A variant of SetupRegister that records the registration before the call
\* returns, so that a registration that raised still counts as made.
SetupRegisterMarksDone(r) ==
    /\ pc[r] = "setup"
    /\ Truthy(WEBHOOK_URL)
    /\ set_webhook_calls' = set_webhook_calls + 1
    /\ webhook_target' = full_webhook_url
    /\ \/ /\ Log(r, PlainCall("set_webhook", 0, full_webhook_url[1], TRUE))
          /\ Respond(r, "Webhook setup finished!")
          /\ faults' = faults
       \/ /\ Fault
          /\ Log(r, PlainCall("set_webhook", 0, full_webhook_url[1], FALSE))
          /\ Respond(r, "error 500")
    /\ UNCHANGED <<route, update, locals, chat, WEBHOOK_URL, initialize_calls>>

\* setup and setup_webhook, lines 194-198 and 208-210: set_webhook is called
\* on every request; when it raises the exception leaves the view.
SetupRegister(r) ==
    /\ pc[r] = "setup"
    /\ Truthy(WEBHOOK_URL)
    /\ set_webhook_calls' = set_webhook_calls + 1
    /\ \/ /\ Log(r, PlainCall("set_webhook", 0, full_webhook_url[1], TRUE))
          /\ webhook_target' = full_webhook_url
          /\ Respond(r, "Webhook setup finished!")
          /\ faults' = faults
       \/ /\ Fault
          /\ Log(r, PlainCall("set_webhook", 0, full_webhook_url[1], FALSE))
          /\ webhook_target' = webhook_target
          /\ Respond(r, "error 500")
    /\ UNCHANGED <<route, update, locals, chat, WEBHOOK_URL, initialize_calls>>

\* ------------------------------------------------------ specifications
Step(r) ==
    \/ WebhookBadPayload(r)
    \/ WebhookProcessFails(r)
    \/ HandleFile(r)
    \/ ReplyUnsupported(r)
    \/ SendStatus(r)
    \/ GetFile(r)
    \/ Download(r)
    \/ EditUploading(r)
    \/ GetDriveService(r)
    \/ UploadToDrive(r)
    \/ EditSuccess(r)
    \/ EditUploadFailed(r)
    \/ ReportError(r)
    \/ SetupWithoutUrl(r)
    \/ SetupRegister(r)

\* The invocation waits for get_drive_service or upload_to_drive.
InExecutor(r) == pc[r] \in {"line 121", "line 123"}

\* A variant of HoldsLoop for the two calls made directly in the coroutine:
\* the thread that runs the handlers is busy until the call returns.
HoldsLoopInExecutor(r) == InExecutor(r)

\* lines 118-125: get_drive_service and upload_to_drive are blocking calls,
\* handed to the executor with run_in_executor and awaited, so the waiting
\* invocation does not keep the thread that runs the handlers; every other
\* call of handle_file is awaited as well.
HoldsLoop(r) == FALSE

\* Request r can be received or go on: no other invocation keeps the thread.
CanRun(r) == \A q \in Requests \ {r} : ~HoldsLoop(q)

\* The requests that can be received or go on.
Runnable == {r \in Requests : CanRun(r)}

\* The server under overlapping requests.
Next == \E r \in Runnable : Arrive(r) \/ Step(r)

Spec == Init /\ [][Next]_vars

\* One webhook request carrying any message.
NextAlone == ArriveAlone \/ Step(1)

SpecAlone == Init /\ [][NextAlone]_vars

\* ================================================================ claims
Ran(r) == branch[r] # "not run"
Done(r) == pc[r] = "done"
Message(r) == update[r][1]
Indices(r, op) == {i \in 1..Len(calls[r]) : calls[r][i].op = op}
Count(r, op) == Cardinality(Indices(r, op))
SentBy(r) == {i \in 1..Len(chat) : chat[i].by = r}

LacksAll(m) ==
    m.document = None /\ m.video = None /\ m.photo = <<>> /\ m.audio = None

\* C1: when handle_file is called with a message that carries no document,
\* video, photo or audio, its only remote call is one reply_text with the
\* unsupported-format notice: no status message is created and no get_file,
\* download, credential or upload call is made.
C1_UnsupportedNoticeOnly ==
    \A r \in Requests :
        (Ran(r) /\ LacksAll(Message(r))) =>
            /\ status_message[r] = None
            /\ Len(calls[r]) <= 1
            /\ Done(r) => Len(calls[r]) = 1
            /\ \A i \in 1..Len(calls[r]) :
                /\ calls[r][i].op = "reply_text"
                /\ calls[r][i].text = UnsupportedText
            /\ Cardinality(SentBy(r)) = Cardinality({i \in 1..Len(calls[r]) : calls[r][i].ok})
            /\ \A i \in SentBy(r) : chat[i].text = UnsupportedText

C1_Witness ==
    \E r \in Requests :
        /\ Done(r) /\ Ran(r) /\ LacksAll(Message(r))
        /\ calls[r] = <<PlainCall("reply_text", 0, UnsupportedText, TRUE)>>
        /\ response[r] = "ok 200"

Kinds == {"document", "video", "photo", "audio"}

Has(m, k) ==
    CASE k = "document" -> m.document # None
      [] k = "video" -> m.video # None
      [] k = "photo" -> m.photo # <<>>
      [] k = "audio" -> m.audio # None

Present(m) == {k \in Kinds : Has(m, k)}

Rank(k) ==
    CASE k = "document" -> 1
      [] k = "video" -> 2
      [] k = "photo" -> 3
      [] k = "audio" -> 4

\* C8: handle_file takes the arm of the highest-priority kind present, in
\* the order document, video, photo, audio, relays that attachment, and takes
\* no arm exactly when none of the four is present.
C8_DispatchPriority ==
    \A r \in Requests :
        Ran(r) =>
            LET m == Message(r)
                P == Present(m) IN
            /\ (branch[r] = "none") <=> (P = {})
            /\ (file_to_process[r] = None) <=> (P = {})
            /\ P # {} =>
                /\ branch[r] \in P
                /\ \A k \in P : Rank(branch[r]) <= Rank(k)
                /\ branch[r] = "document" => file_to_process[r] = m.document
                /\ branch[r] = "video" => file_to_process[r] = m.video
                /\ branch[r] = "audio" => file_to_process[r] = m.audio
                /\ branch[r] = "photo" =>
                    \E i \in 1..Len(m.photo) : file_to_process[r] = Some(m.photo[i])

C8_Witness ==
    \E r \in Requests :
        /\ Ran(r)
        /\ Present(Message(r)) = Kinds
        /\ branch[r] = "document"
        /\ Count(r, "get_file") = 1

\* C9: for a photo message with N >= 1 size variants and no document or
\* video, the file asked for is the last variant, and the suggested name is
\* photo_{unique id of the last variant}.jpg.
C9_LastPhotoVariant ==
    \A r \in Requests :
        (Ran(r) /\ Message(r).document = None /\ Message(r).video = None
                /\ Len(Message(r).photo) >= 1) =>
            LET photo == Message(r).photo
                N == Len(photo) IN
            /\ file_to_process[r] = Some(photo[N])
            /\ file_name[r] = Some(<<"photo_", photo[N].file_unique_id, ".jpg">>)
            /\ \A i \in Indices(r, "get_file") : calls[r][i].text = photo[N].file_id
            /\ \A j \in 1..(N - 1) :
                \A i \in Indices(r, "get_file") : calls[r][i].text # photo[j].file_id

C9_Witness ==
    \E r \in Requests :
        /\ Ran(r) /\ Message(r).document = None /\ Message(r).video = None
        /\ Len(Message(r).photo) >= 2
        /\ \E i \in Indices(r, "get_file") : calls[r][i].ok

Synthesized(kind, attachment, ext) == Some(<<kind, attachment.file_unique_id, ext>>)

\* C10 as stated: a video or audio whose declared name is absent gets
\* video_{id}.mp4 or audio_{id}.mp3, any declared name that is present is
\* used unchanged, and a document's declared name is passed through.
C10_AsStated ==
    \A r \in Requests :
        Ran(r) =>
            LET m == Message(r) IN
            /\ branch[r] = "video" =>
                file_name[r] = IF m.video[1].file_name = None
                               THEN Synthesized("video_", m.video[1], ".mp4")
                               ELSE m.video[1].file_name
            /\ branch[r] = "audio" =>
                file_name[r] = IF m.audio[1].file_name = None
                               THEN Synthesized("audio_", m.audio[1], ".mp3")
                               ELSE m.audio[1].file_name
            /\ branch[r] = "document" => file_name[r] = m.document[1].file_name

\* C10, amended: a video or audio whose declared name is absent or the empty
\* string gets video_{id}.mp4 or audio_{id}.mp3, a non-empty declared name is
\* used unchanged, and a document's declared name is passed through as it is
\* (absent and empty included).
C10_SuggestedName ==
    \A r \in Requests :
        Ran(r) =>
            LET m == Message(r) IN
            /\ branch[r] = "video" =>
                file_name[r] = IF Truthy(m.video[1].file_name)
                               THEN m.video[1].file_name
                               ELSE Synthesized("video_", m.video[1], ".mp4")
            /\ branch[r] = "audio" =>
                file_name[r] = IF Truthy(m.audio[1].file_name)
                               THEN m.audio[1].file_name
                               ELSE Synthesized("audio_", m.audio[1], ".mp3")
            /\ branch[r] = "document" => file_name[r] = m.document[1].file_name

C10_Witness ==
    \E r \in Requests :
        /\ Ran(r) /\ branch[r] = "video"
        /\ Message(r).video[1].file_name = None
        /\ file_name[r] = Some(<<"video_", "video", ".mp4">>)
        /\ Count(r, "upload_to_drive") = 1

AllDone == \A r \in Requests : Done(r)

Succeeded(r) == response[r] \in {"ok 200", "Webhook setup finished!"}

\* C2 as stated, for a deployment whose WEBHOOK_URL is set: the initialize +
\* set_webhook sequence never runs more than once in the process, and when
\* the requests have all completed successfully it has run exactly once.
C2_SetupExactlyOnce ==
    Truthy(WEBHOOK_URL) =>
        /\ initialize_calls <= 1
        /\ set_webhook_calls <= 1
        /\ (AllDone /\ \A r \in Requests : Succeeded(r)) =>
                (initialize_calls = 1 /\ set_webhook_calls = 1)

\* The text shown in the status message of r's invocation.
StatusText(r) == chat[status_message[r][1]].text

\* The fixed oversized-file text the claim names (it states the 20 MB
\* ceiling); no such text occurs in src/app.py.
OversizedText == <<"file-too-large: ", "limit 20 MB">>

FetchRaisedTooBig(r) ==
    /\ exc[r] = Some(TooBig)
    /\ \E i \in Indices(r, "get_file") \cup Indices(r, "download_to_memory") :
        ~calls[r][i].ok

\* C3 as stated: when get_file or download_to_memory raises the oversized
\* payload error, the final status text is the fixed oversized-file text and
\* the invocation makes no credential and no upload call.
C3_OversizedFixedText ==
    \A r \in Requests :
        (Done(r) /\ FetchRaisedTooBig(r)) =>
            /\ StatusText(r) = OversizedText
            /\ Count(r, "get_drive_service") = 0
            /\ Count(r, "upload_to_drive") = 0

\* ---- what the chat renders of an HTML text: its links, in order.
\* The first index >= from at which token tok occurs in t, 0 if none.
First(t, tok, from) ==
    IF \E j \in from..Len(t) : t[j] = tok
    THEN CHOOSE j \in from..Len(t) :
            t[j] = tok /\ \A l \in from..(j - 1) : t[l] # tok
    ELSE 0

RECURSIVE LinksFrom(_, _)
LinksFrom(t, i) ==
    IF i > Len(t) THEN <<>>
    ELSE IF t[i] # AOpen THEN LinksFrom(t, i + 1)
    ELSE LET j == First(t, AMid, i + 1)
             k == IF j = 0 THEN 0 ELSE First(t, AClose, j + 1) IN
         IF k = 0 THEN <<>>
         ELSE <<[href |-> SubSeq(t, i + 1, j - 1), text |-> SubSeq(t, j + 1, k - 1)]>>
                \o LinksFrom(t, k + 1)

Links(t) == LinksFrom(t, 1)

UploadReturned(r) == Count(r, "upload_to_drive") = 1

\* C4 as stated: when upload_to_drive returned a non-empty reference R for
\* the suggested name N, the last edit of the status message is the success
\* message in HTML mode with the link preview disabled, and it holds exactly
\* one link, whose href is R and whose visible text is N.
C4_SuccessLink ==
    \A r \in Requests :
        (Done(r) /\ UploadReturned(r) /\ Truthy(file_link[r])) =>
            LET last == calls[r][Len(calls[r])] IN
            /\ last.op = "edit_text"
            /\ last.parse_mode = "HTML"
            /\ last.disable_web_page_preview
            /\ Links(last.text) = <<[href |-> file_link[r][1], text |-> Str(file_name[r])]>>

\* The index of the upload call in r's log (r has made one).
UploadIndex(r) == CHOOSE i \in Indices(r, "upload_to_drive") : TRUE

\* The call is the except clause's edit of line 142.
IsErrorEdit(r, call) ==
    /\ call.op = "edit_text"
    /\ exc[r] # None
    /\ call.text = ErrorText(exc[r][1])
    /\ call.target = status_message[r][1]

\* The call is the edit of line 137.
IsUploadFailedEdit(r, call) ==
    /\ call.op = "edit_text"
    /\ call.text = UploadFailedText
    /\ call.target = status_message[r][1]

\* C5 as stated: whenever upload_to_drive returned the empty result, the
\* final status text is the fixed upload-failed text, which differs from the
\* exception path's text for every error value.
C5_AsStated ==
    /\ \A e \in Errors : ErrorText(e) # UploadFailedText
    /\ \A r \in Requests :
        (Done(r) /\ UploadReturned(r) /\ ~Truthy(file_link[r])) =>
            StatusText(r) = UploadFailedText

\* C5, amended: whenever upload_to_drive returned the empty result and the
\* edit of line 137 returned, the final status text is the fixed
\* upload-failed text; the text of the exception path differs from it for
\* every error value, those raised in the run included.
C5_UploadFailedText ==
    /\ \A e \in Errors : ErrorText(e) # UploadFailedText
    /\ \A r \in Requests :
        /\ exc[r] # None => ErrorText(exc[r][1]) # UploadFailedText
        /\ \A i \in 1..Len(calls[r]) :
            IsErrorEdit(r, calls[r][i]) => calls[r][i].text # UploadFailedText
        /\ (Done(r) /\ UploadReturned(r) /\ ~Truthy(file_link[r])
                /\ calls[r][UploadIndex(r) + 1].ok) =>
            /\ StatusText(r) = UploadFailedText
            /\ Len(calls[r]) = UploadIndex(r) + 1

C5_Witness ==
    \E r \in Requests :
        /\ Done(r) /\ UploadReturned(r)
        /\ file_link[r] = None
        /\ calls[r][UploadIndex(r)].ok
        /\ StatusText(r) = UploadFailedText

\* The remote calls made inside the try block, the except clause's own
\* edit excluded.
InTry(r, i) ==
    /\ calls[r][i].op # "reply_text"
    /\ ~(i > 1 /\ ~calls[r][i - 1].ok /\ calls[r][i - 1].op # "upload_to_drive"
            /\ IsErrorEdit(r, calls[r][i]))

\* A call raised to handle_file (upload_to_drive returns None instead).
Raised(r, i) == ~calls[r][i].ok /\ calls[r][i].op # "upload_to_drive"

\* C6 as stated, for the requests whose update reached handle_file with a
\* supported file: the request is answered ok/200, no error leaves the pipeline, and every error
\* raised at a step of the pipeline has been reported by an edit of the
\* status message.
C6_AsStated ==
    \A r \in Requests :
        (Done(r) /\ route[r] = "webhook" /\ update[r] # None /\ Ran(r)
                 /\ file_to_process[r] # None) =>
            /\ response[r] = "ok 200"
            /\ escaped[r] = None
            /\ \A i \in 1..Len(calls[r]) :
                Raised(r, i) =>
                    \E j \in (i + 1)..Len(calls[r]) :
                        calls[r][j].op = "edit_text" /\ calls[r][j].ok

\* C6, amended: a webhook request is answered error/500 exactly when its
\* payload does not parse or process_update itself raises, and ok/200
\* however handle_file ends.  An error raised inside the try block is
\* followed by the except clause's edit, with the error's text, as the next
\* and last call; an error raised by the status send of line 103, the
\* notice of line 98 or the except clause's own edit leaves handle_file
\* with no further call.
C6_ErrorsReported ==
    \A r \in Requests :
        (Done(r) /\ route[r] = "webhook") =>
            /\ (response[r] = "ok 200") <=> Ran(r)
            /\ (response[r] = "error 500") <=> ~Ran(r)
            /\ ~Ran(r) => calls[r] = <<>>
            /\ \A i \in 1..Len(calls[r]) :
                Raised(r, i) =>
                    IF InTry(r, i)
                    THEN /\ Len(calls[r]) = i + 1
                         /\ IsErrorEdit(r, calls[r][i + 1])
                         /\ calls[r][i + 1].ok <=> escaped[r] = None
                         /\ calls[r][i + 1].ok => StatusText(r) = ErrorText(exc[r][1])
                    ELSE /\ Len(calls[r]) = i
                         /\ escaped[r] # None
            /\ escaped[r] # None => Raised(r, Len(calls[r]))

C6_Witness ==
    \E r \in Requests :
        /\ Done(r) /\ route[r] = "webhook" /\ response[r] = "ok 200"
        /\ \E i \in Indices(r, "get_drive_service") : Raised(r, i)
        /\ StatusText(r) = ErrorText(Lookalike)

\* The invocation has failed: a call raised or the upload came back empty.
Failed(r) ==
    \/ \E i \in 1..Len(calls[r]) : Raised(r, i)
    \/ UploadReturned(r) /\ ~Truthy(file_link[r])

FailureEdits(r) ==
    {i \in 1..Len(calls[r]) :
        IsErrorEdit(r, calls[r][i]) \/ IsUploadFailedEdit(r, calls[r][i])}

OnceEach(r) ==
    \A op \in {"get_file", "download_to_memory", "get_drive_service", "upload_to_drive"} :
        Count(r, op) <= 1

\* C7 as stated, for the invocations that created their status message:
\* fetch, credential acquisition and upload are attempted at most once, and
\* after a failure the status message gets exactly one failure edit, the
\* last call of the invocation.
C7_AsStated ==
    \A r \in Requests :
        /\ OnceEach(r)
        /\ (Done(r) /\ status_message[r] # None /\ Failed(r)) =>
            /\ Cardinality(FailureEdits(r)) = 1
            /\ Len(calls[r]) \in FailureEdits(r)

\* C7, amended: fetch, credential acquisition and upload are attempted at
\* most once and never after a failure.  A raised error inside the try block
\* is followed by the except clause's edit as the last call; an empty upload
\* result is followed by the upload-failed edit, and by the except clause's
\* edit as well only when that edit raises; when the status send raises no
\* edit is made.
C7_NoRetries ==
    \A r \in Requests :
        /\ OnceEach(r)
        /\ Count(r, "reply_text") <= 1
        /\ \A i \in 1..Len(calls[r]) :
            (Raised(r, i) \/ (calls[r][i].op = "upload_to_drive" /\ ~Truthy(file_link[r]))) =>
                \A j \in (i + 1)..Len(calls[r]) : j \in FailureEdits(r)
        /\ Cardinality(FailureEdits(r)) <= 2
        /\ Cardinality({i \in FailureEdits(r) : calls[r][i].ok}) <= 1
        /\ (Done(r) /\ status_message[r] # None /\ Failed(r)) =>
            /\ Len(calls[r]) \in FailureEdits(r)
            /\ Cardinality(FailureEdits(r)) = 2 <=>
                (/\ UploadReturned(r) /\ ~Truthy(file_link[r])
                 /\ Raised(r, UploadIndex(r) + 1))
        /\ (Done(r) /\ Ran(r) /\ status_message[r] = None) => Len(calls[r]) = 1

C7_Witness ==
    \E r \in Requests :
        /\ Done(r) /\ UploadReturned(r) /\ ~Truthy(file_link[r])
        /\ Raised(r, UploadIndex(r) + 1)
        /\ Cardinality(FailureEdits(r)) = 2
        /\ StatusText(r) = ErrorText(TimedOut)

\* C11 as stated: whenever handle_file hands a file to upload_to_drive, the
\* suggested name it passes is a non-empty string.
C11_NameNonEmpty ==
    \A r \in Requests :
        Count(r, "upload_to_drive") >= 1 => Truthy(file_name[r])

\* C12 as stated: set_webhook is called only once initialize has completed,
\* and neither of the two is run more than once in the process, whatever
\* requests arrive.
C12_InitializeThenRegisterOnce ==
    /\ set_webhook_calls >= 1 => initialize_calls >= 1
    /\ initialize_calls <= 1
    /\ set_webhook_calls <= 1

\* A /setup request whose set_webhook call raised.
SetupRaised(r) ==
    /\ Done(r)
    /\ route[r] = "setup"
    /\ response[r] = "error 500"

\* q is the next request the server has not received yet.
NextToArrive(q) ==
    /\ pc[q] = "idle"
    /\ \A p \in Requests : p < q => pc[p] # "idle"

\* C13: when set_webhook raises in a /setup request, no registration is
\* recorded for it (while no set_webhook call has returned, webhook_target
\* is unset), the server still receives further requests and steps the ones
\* in progress, and another /setup request can run the registration again.
C13_FailedSetupCanRunAgain ==
    /\ (\A r \in Requests : \A i \in Indices(r, "set_webhook") :
            ~calls[r][i].ok) => webhook_target = None
    /\ \A r \in Requests : SetupRaised(r) =>
        \A q \in Requests \ {r} :
            /\ NextToArrive(q) => ENABLED Arrive(q)
            /\ pc[q] \notin {"idle", "done"} => ENABLED Step(q)
            /\ pc[q] = "setup" => ENABLED SetupRegister(q)

\* The first /setup request failed at set_webhook and the second one ran the
\* registration again, this time successfully.
C13_Witness ==
    /\ SetupRaised(1)
    /\ Done(2)
    /\ route[2] = "setup"
    /\ response[2] = "Webhook setup finished!"
    /\ set_webhook_calls = 2
    /\ webhook_target = full_webhook_url

\* C14: when WEBHOOK_URL is missing, no set_webhook call is ever made and no
\* registration is recorded, and every /setup request ends with the normal
\* response of the view, without an exception and without any remote call.
C14_MissingUrlNoRegistration ==
    ~Truthy(WEBHOOK_URL) =>
        /\ set_webhook_calls = 0
        /\ webhook_target = None
        /\ \A r \in Requests : (Done(r) /\ route[r] = "setup") =>
            /\ response[r] = "Webhook setup finished!"
            /\ calls[r] = <<>>
            /\ \A q \in Requests : NextToArrive(q) => ENABLED Arrive(q)

\* Without WEBHOOK_URL, two /setup requests have been answered.
C14_Witness ==
    /\ WEBHOOK_URL = None
    /\ \A r \in {1, 2} : Done(r) /\ route[r] = "setup"
    /\ set_webhook_calls = 0

\* The remote calls of a complete relay, in the order of lines 103-137.
RelayOps ==
    <<"reply_text", "get_file", "download_to_memory", "edit_text",
      "get_drive_service", "upload_to_drive", "edit_text">>

Ops(r) == [i \in 1..Len(calls[r]) |-> calls[r][i].op]

\* q's invocation relayed its file: it ended with the success text shown.
Relayed(q) ==
    /\ Done(q)
    /\ Truthy(file_link[q])
    /\ Ops(q) = RelayOps
    /\ calls[q][7].ok

NoneRaised(r) == \A i \in 1..Len(calls[r]) : ~Raised(r, i)

\* C15: when handle_file is invoked for an update identical to that of
\* another invocation q that relayed its file, the invocation r still sends
\* a status message of its own and makes its own get_file, download,
\* credential and upload calls:
\* having ended without a raised call, its calls are those of a complete
\* relay, on its own file, and its status message is not q's.
C15_NoDeduplication ==
    \A q \in Requests : \A r \in Requests \ {q} :
        ( /\ update[r] = update[q]
          /\ Relayed(q)
          /\ Ran(r)
          /\ Done(r)
          /\ NoneRaised(r) ) =>
            /\ Ops(r) = RelayOps
            /\ calls[r][2].text = file_to_process[r][1].file_id
            /\ status_message[r] # None
            /\ status_message[r] # status_message[q]
            /\ chat[status_message[r][1]].by = r

\* The same document message was delivered twice and relayed twice, each
\* time with a status message of its own.
C15_Witness ==
    /\ update[1] = update[2]
    /\ Relayed(1)
    /\ Relayed(2)
    /\ status_message[1] # status_message[2]
    /\ Len(chat) = 2

\* Where handle_file stands once the i-th call of a relay has returned.
PcAfter ==
    <<"line 108", "line 112", "line 116", "line 121", "line 123", "line 128",
      "done">>

\* C16: an invocation for a supported file makes its remote calls in the
\* order status message, get_file, download, 'uploading' edit, credential,
\* upload, final edit, each one once and each one only when the one before
\* it has returned: its log is a prefix of that sequence, cut short only by
\* a call that raised, after which nothing but the error report follows.
\* The upload call directly follows a credential call that returned.
C16_StepsInOrder ==
    \A r \in Requests : (Ran(r) /\ file_to_process[r] # None) =>
        LET c == calls[r] IN
        /\ \A i \in 1..Len(c) :
            IF i > 1 /\ Raised(r, i - 1)
            THEN i > 2 /\ i = Len(c) /\ IsErrorEdit(r, c[i])
            ELSE /\ i <= Len(RelayOps)
                 /\ c[i].op = RelayOps[i]
                 /\ i = 4 => c[i].text = UploadingText
                 /\ i = 7 => c[i].text \in
                        {UploadFailedText, SuccessText(file_link[r], file_name[r])}
        /\ \A i \in Indices(r, "upload_to_drive") :
            c[i - 1].op = "get_drive_service" /\ c[i - 1].ok
        /\ NoneRaised(r) =>
            pc[r] = IF c = <<>> THEN "line 103" ELSE PcAfter[Len(c)]

\* An invocation went through all seven calls and ended with the success
\* text.
C16_Witness ==
    /\ Relayed(1)
    /\ NoneRaised(1)
    /\ StatusText(1) = SuccessText(file_link[1], file_name[1])

ProviderRaised(r, i) ==
    /\ calls[r][i].op = "upload_to_drive"
    /\ ~calls[r][i].ok

\* C18: upload_to_drive returns to handle_file whatever the provider does,
\* so right after the call handle_file stands at line 128 with no exception
\* caught; when the provider raised, the result is None and the next call of
\* the invocation is the 'upload failed' edit of line 137, not the error
\* report of line 142.
C18_UploadNeverRaises ==
    \A r \in Requests : \A i \in Indices(r, "upload_to_drive") :
        /\ i = Len(calls[r]) => (pc[r] = "line 128" /\ exc[r] = None)
        /\ ProviderRaised(r, i) =>
            /\ file_link[r] = None
            /\ i < Len(calls[r]) =>
                /\ IsUploadFailedEdit(r, calls[r][i + 1])
                /\ calls[r][i + 1].text # ErrorText(TimedOut)

\* The provider raised during the upload and the invocation ended with the
\* 'upload failed' text shown.
C18_Witness ==
    /\ Done(1)
    /\ Len(calls[1]) = 7
    /\ ProviderRaised(1, 6)
    /\ calls[1][7].ok
    /\ exc[1] = None
    /\ StatusText(1) = UploadFailedText

\* The edits of r that returned and were aimed at message m.
EditsOn(r, m) ==
    {i \in Indices(r, "edit_text") : calls[r][i].ok /\ calls[r][i].target = m}

Last(S) == CHOOSE i \in S : \A j \in S : j <= i

\* C19: every edit_text call of an invocation is aimed at the status message
\* that invocation sent itself, no two invocations have the same status
\* message, and the text a status message shows is the one of the last edit
\* of its own invocation that returned (the text it was sent with while
\* there is none).
C19_OwnStatusMessageOnly ==
    /\ \A r \in Requests : \A i \in Indices(r, "edit_text") :
        /\ status_message[r] # None
        /\ calls[r][i].target = status_message[r][1]
        /\ chat[calls[r][i].target].by = r
    /\ \A r \in Requests : \A q \in Requests \ {r} :
        status_message[r] # None => status_message[r] # status_message[q]
    /\ \A r \in Requests : status_message[r] # None =>
        LET m == status_message[r][1] IN
        /\ \A q \in Requests \ {r} : \A i \in 1..Len(calls[q]) :
            calls[q][i].op = "edit_text" => calls[q][i].target # m
        /\ chat[m].text = IF EditsOn(r, m) = {} THEN FetchingText
                          ELSE calls[r][Last(EditsOn(r, m))].text

\* Two overlapping invocations have each edited their own status message:
\* the second one has ended with the 'upload failed' text while the first
\* one, which sent its status message later, shows the 'uploading' text.
C19_Witness ==
    /\ status_message[1] = Some(2)
    /\ status_message[2] = Some(1)
    /\ pc[1] = "line 121"
    /\ Done(2)
    /\ StatusText(1) = UploadingText
    /\ StatusText(2) = UploadFailedText

\* The status message of r shows the success text (the only edit in HTML
\* mode is the one of lines 130-134).
ShowsSuccess(r) ==
    /\ status_message[r] # None
    /\ chat[status_message[r][1]].parse_mode = "HTML"

\* The call op of r was made once and returned.
Returned(r, op) ==
    /\ Count(r, op) = 1
    /\ \A i \in Indices(r, op) : calls[r][i].ok

\* The edits of r other than the 'uploading' edit of line 116.
TerminalEdits(r) ==
    {i \in Indices(r, "edit_text") : calls[r][i].text # UploadingText}

====
